---- MODULE Spec2Model ----
(***************************************************************************)
(* Change-detection demo components of the repository.                     *)
(*                                                                         *)
(* The state is the fields of ManualCdComponent (OnPush) and               *)
(* OutsideZoneComponent (Default), the value of each field as last written *)
(* to the DOM by a check of the component's view (the "rendered" value),   *)
(* the dirty flag of the OnPush view, and whether the zone has an          *)
(* onMicrotaskEmpty emission outstanding, which runs ApplicationRef.tick().*)
(* Every public method of the two components is one action.                *)
(*                                                                         *)
(* AppComponent (root), DefaultCdComponent and OnpushCdComponent add the   *)
(* root's fields, the @Input values last bound into the two children, and  *)
(* lastChecked, which ngDoCheck stamps whenever a child's view is checked. *)
(*                                                                         *)
(* AsyncCdComponent (Default) adds its counters, the browser's timer queue *)
(* and the microtask queue. A task (handler, timer or frame callback) runs *)
(* only when the microtask queue is empty, as in the browser's event loop. *)
(***************************************************************************)
EXTENDS Integers, FiniteSets, Sequences, TLC

\* Number of handler invocations explored (the counters are unbounded in the code).
MaxSteps == 3

\* Number of animation frames explored.
MaxFrames == 11

\* outside-zone.component.ts:70 "Only trigger CD every 10 frames"
FramesPerCheck == 10

\* outside-zone.component.ts:85 loop bound of heavyComputation
HeavyIterations == 1000000

\* outside-zone.component.ts:88 modulus applied to the computed sum
HeavyModulus == 1000

\* ManualCdComponent.incrementMultiple (unnamed/part_003:55-57) adds 5 to each counter
MultipleStep == 5

\* Number of setInterval callbacks explored.
MaxIntervalFires == 2

\* Distinct values of new Date().toLocaleTimeString() explored by updateData.
MaxTimeStrings == 2

VARIABLES
    counter, data,                           \* AppComponent fields; data 0 is 'Initial Data'
    checkCDCount,                            \* AppComponent.checkCDCount
    defaultCounter, defaultData,             \* DefaultCdComponent @Input values
    defaultInternalCounter, defaultLastChecked,
    onpushCounter, onpushData,               \* OnpushCdComponent @Input values
    onpushInternalCounter, onpushLastChecked,
    onpushDirty,                             \* dirty flag of the OnpushCdComponent view
    setTimeoutCounter, setIntervalCounter,   \* AsyncCdComponent fields
    promiseCounter, asyncCounter,
    intervalId,                              \* 0 is null, 1 a running interval
    renderedSetTimeout, renderedSetInterval, \* AsyncCdComponent view bindings
    renderedPromise, renderedAsync,
    timers,                                  \* pending timer callbacks, earliest due first
    microtasks,                              \* pending microtasks, oldest first
    counter1, counter2, counter3,            \* ManualCdComponent fields
    rendered1, rendered2, rendered3,         \* ManualCdComponent view bindings
    manualDirty,                             \* dirty flag of the OnPush view
    insideZoneCounter, outsideZoneCounter,   \* OutsideZoneComponent fields
    outsideZoneWithManualCounter,
    animationFrameCounter,
    animationId,                             \* 0 is null, 1 a pending frame request
    renderedInside, renderedOutside,         \* OutsideZoneComponent view bindings
    renderedWithManual, renderedFrame,
    pendingTick,                             \* onMicrotaskEmpty emission outstanding
    steps                                    \* handler invocations so far

manualFields == <<counter1, counter2, counter3>>
manualView == <<rendered1, rendered2, rendered3, manualDirty>>
outsideFields == <<insideZoneCounter, outsideZoneCounter,
                   outsideZoneWithManualCounter, animationFrameCounter, animationId>>
outsideView == <<renderedInside, renderedOutside, renderedWithManual, renderedFrame>>
appFields == <<counter, data, checkCDCount>>
defaultFields == <<defaultCounter, defaultData, defaultInternalCounter, defaultLastChecked>>
onpushFields == <<onpushCounter, onpushData, onpushInternalCounter,
                  onpushLastChecked, onpushDirty>>
asyncFields == <<setTimeoutCounter, setIntervalCounter, promiseCounter,
                 asyncCounter, intervalId>>
asyncView == <<renderedSetTimeout, renderedSetInterval, renderedPromise, renderedAsync>>
queues == <<timers, microtasks>>
demoFields == <<appFields, defaultFields, onpushFields>>
otherFields == <<demoFields, asyncFields, asyncView, queues>>
vars == <<manualFields, manualView, outsideFields, outsideView, demoFields,
          asyncFields, asyncView, queues, pendingTick, steps>>

----
\* The sum 0 + 1 + ... + (n-1) reduced modulo m, as heavyComputation's loop
\* accumulates it (every partial sum is below 2^53, so the doubles are exact).
\* n is even, so n(n-1)/2 = (n/2)(n-1), reduced factor by factor.
HeavyResult(n, m) == (((n \div 2) % m) * ((n - 1) % m)) % m

\* A task starts only after the microtasks of the previous task have run.
TaskMayRun == microtasks = <<>>

CanStep == steps < MaxSteps /\ TaskMayRun

\* new Date(): a logical time that every handler invocation and every
\* change-detection cycle advances.
Now == steps + checkCDCount

\* The time-of-day strings updateData can produce.
TimeStrings == 1..MaxTimeStrings

----
\* State after bootstrap: every field at its initial value, the views rendered
\* and the inputs bound from them; checkCDCount and the logical time are counted
\* from that point.
Init ==
    /\ counter1 = 0 /\ counter2 = 0 /\ counter3 = 0
    /\ rendered1 = 0 /\ rendered2 = 0 /\ rendered3 = 0
    /\ manualDirty = FALSE
    /\ insideZoneCounter = 0 /\ outsideZoneCounter = 0
    /\ outsideZoneWithManualCounter = 0
    /\ animationFrameCounter = 0
    /\ animationId = 0
    /\ renderedInside = 0 /\ renderedOutside = 0
    /\ renderedWithManual = 0 /\ renderedFrame = 0
    /\ pendingTick = FALSE
    /\ steps = 0
    /\ counter = 0 /\ data = 0 /\ checkCDCount = 0
    /\ defaultCounter = 0 /\ defaultData = 0
    /\ defaultInternalCounter = 0 /\ defaultLastChecked = 0
    /\ onpushCounter = 0 /\ onpushData = 0
    /\ onpushInternalCounter = 0 /\ onpushLastChecked = 0
    /\ onpushDirty = FALSE
    /\ setTimeoutCounter = 0 /\ setIntervalCounter = 0
    /\ promiseCounter = 0 /\ asyncCounter = 0
    /\ intervalId = 0
    /\ renderedSetTimeout = 0 /\ renderedSetInterval = 0
    /\ renderedPromise = 0 /\ renderedAsync = 0
    /\ timers = <<>>
    /\ microtasks = <<>>

----
\* ManualCdComponent

\* counter1++ then cdr.detectChanges(): the view is checked right now.
incrementWithDetectChanges ==
    /\ CanStep
    /\ steps' = steps + 1
    /\ UNCHANGED otherFields
    /\ counter1' = counter1 + 1
    /\ rendered1' = counter1 + 1
    /\ rendered2' = counter2
    /\ rendered3' = counter3
    /\ manualDirty' = FALSE
    /\ UNCHANGED <<counter2, counter3, outsideFields, outsideView, pendingTick>>

\* counter2++ followed by an immediate check of the view instead of a mark.
incrementWithMarkForCheckImmediate ==
    /\ CanStep
    /\ steps' = steps + 1
    /\ UNCHANGED otherFields
    /\ counter2' = counter2 + 1
    /\ rendered1' = counter1
    /\ rendered2' = counter2 + 1
    /\ rendered3' = counter3
    /\ manualDirty' = FALSE
    /\ UNCHANGED <<counter1, counter3, outsideFields, outsideView, pendingTick>>

\* counter2++ then cdr.markForCheck(): the view is only marked dirty.
incrementWithMarkForCheck ==
    /\ CanStep
    /\ steps' = steps + 1
    /\ UNCHANGED otherFields
    /\ counter2' = counter2 + 1
    /\ manualDirty' = TRUE
    /\ UNCHANGED <<counter1, counter3, rendered1, rendered2, rendered3,
                   outsideFields, outsideView, pendingTick>>

\* counter3++ followed by cdr.markForCheck().
incrementWithoutTriggerMarked ==
    /\ CanStep
    /\ steps' = steps + 1
    /\ UNCHANGED otherFields
    /\ counter3' = counter3 + 1
    /\ manualDirty' = TRUE
    /\ UNCHANGED <<counter1, counter2, rendered1, rendered2, rendered3,
                   outsideFields, outsideView, pendingTick>>

\* counter3++ with no trigger.
incrementWithoutTrigger ==
    /\ CanStep
    /\ steps' = steps + 1
    /\ UNCHANGED otherFields
    /\ counter3' = counter3 + 1
    /\ UNCHANGED <<counter1, counter2, manualView,
                   outsideFields, outsideView, pendingTick>>

\* all three counters += 5 then a single cdr.detectChanges().
incrementMultiple ==
    /\ CanStep
    /\ steps' = steps + 1
    /\ UNCHANGED otherFields
    /\ counter1' = counter1 + MultipleStep
    /\ counter2' = counter2 + MultipleStep
    /\ counter3' = counter3 + MultipleStep
    /\ rendered1' = counter1 + MultipleStep
    /\ rendered2' = counter2 + MultipleStep
    /\ rendered3' = counter3 + MultipleStep
    /\ manualDirty' = FALSE
    /\ UNCHANGED <<outsideFields, outsideView, pendingTick>>

----
\* OutsideZoneComponent

\* insideZoneCounter++ inside the zone: the zone emits onMicrotaskEmpty afterwards.
incrementInsideZone ==
    /\ CanStep
    /\ steps' = steps + 1
    /\ UNCHANGED otherFields
    /\ insideZoneCounter' = insideZoneCounter + 1
    /\ pendingTick' = TRUE
    /\ UNCHANGED <<outsideZoneCounter, outsideZoneWithManualCounter,
                   animationFrameCounter, animationId,
                   outsideView, manualFields, manualView>>

\* outsideZoneCounter++ run inside the zone.
incrementOutsideZoneInZone ==
    /\ CanStep
    /\ steps' = steps + 1
    /\ UNCHANGED otherFields
    /\ outsideZoneCounter' = outsideZoneCounter + 1
    /\ pendingTick' = TRUE
    /\ UNCHANGED <<insideZoneCounter, outsideZoneWithManualCounter,
                   animationFrameCounter, animationId,
                   outsideView, manualFields, manualView>>

\* outsideZoneCounter++ inside runOutsideAngular.
incrementOutsideZone ==
    /\ CanStep
    /\ steps' = steps + 1
    /\ UNCHANGED otherFields
    /\ outsideZoneCounter' = outsideZoneCounter + 1
    /\ UNCHANGED <<insideZoneCounter, outsideZoneWithManualCounter,
                   animationFrameCounter, animationId,
                   outsideView, manualFields, manualView, pendingTick>>

\* outsideZoneWithManualCounter++ outside the zone, then
\* ngZone.run(() => cdr.detectChanges()).
incrementOutsideZoneWithManual ==
    /\ CanStep
    /\ steps' = steps + 1
    /\ UNCHANGED otherFields
    /\ outsideZoneWithManualCounter' = outsideZoneWithManualCounter + 1
    /\ renderedInside' = insideZoneCounter
    /\ renderedOutside' = outsideZoneCounter
    /\ renderedWithManual' = outsideZoneWithManualCounter + 1
    /\ renderedFrame' = animationFrameCounter
    /\ pendingTick' = TRUE
    /\ UNCHANGED <<insideZoneCounter, outsideZoneCounter,
                   animationFrameCounter, animationId, manualFields, manualView>>

\* A frame that tests the counter before incrementing it.
animateStale ==
    /\ animationFrameCounter' = animationFrameCounter + 1
    /\ animationId' = 1
    /\ IF animationFrameCounter % FramesPerCheck = 0
       THEN /\ renderedInside' = insideZoneCounter
            /\ renderedOutside' = outsideZoneCounter
            /\ renderedWithManual' = outsideZoneWithManualCounter
            /\ renderedFrame' = animationFrameCounter + 1
            /\ pendingTick' = TRUE
       ELSE UNCHANGED <<outsideView, pendingTick>>
    /\ UNCHANGED <<insideZoneCounter, outsideZoneCounter,
                   outsideZoneWithManualCounter, manualFields, manualView>>

\* The body of the animate closure: one frame.
animate ==
    /\ animationFrameCounter' = animationFrameCounter + 1
    /\ animationId' = 1
    /\ IF (animationFrameCounter + 1) % FramesPerCheck = 0
       THEN /\ renderedInside' = insideZoneCounter
            /\ renderedOutside' = outsideZoneCounter
            /\ renderedWithManual' = outsideZoneWithManualCounter
            /\ renderedFrame' = animationFrameCounter + 1
            /\ pendingTick' = TRUE
       ELSE UNCHANGED <<outsideView, pendingTick>>
    /\ UNCHANGED <<insideZoneCounter, outsideZoneCounter,
                   outsideZoneWithManualCounter, manualFields, manualView>>

\* Toggle: cancels a running animation, otherwise runs the first frame.
startAnimation ==
    /\ CanStep
    /\ steps' = steps + 1
    /\ UNCHANGED otherFields
    /\ IF animationId # 0
       THEN /\ animationId' = 0
            /\ UNCHANGED <<insideZoneCounter, outsideZoneCounter,
                           outsideZoneWithManualCounter, animationFrameCounter,
                           outsideView, manualFields, manualView, pendingTick>>
       ELSE /\ animationFrameCounter < MaxFrames
            /\ animate

\* The browser runs the requested frame callback.
animationFrame ==
    /\ TaskMayRun
    /\ animationId # 0
    /\ animationFrameCounter < MaxFrames
    /\ animate
    /\ UNCHANGED <<steps, otherFields>>

\* The sum is stored and no change detection is triggered.
heavyComputationNoDetect ==
    /\ CanStep
    /\ steps' = steps + 1
    /\ UNCHANGED otherFields
    /\ outsideZoneWithManualCounter' = HeavyResult(HeavyIterations, HeavyModulus)
    /\ UNCHANGED <<insideZoneCounter, outsideZoneCounter, animationFrameCounter,
                   animationId, outsideView, manualFields, manualView, pendingTick>>

\* The sum of 0..999999 modulo 1000 is stored, then
\* ngZone.run(() => cdr.detectChanges()).
heavyComputation ==
    /\ CanStep
    /\ steps' = steps + 1
    /\ UNCHANGED otherFields
    /\ outsideZoneWithManualCounter' = HeavyResult(HeavyIterations, HeavyModulus)
    /\ renderedInside' = insideZoneCounter
    /\ renderedOutside' = outsideZoneCounter
    /\ renderedWithManual' = HeavyResult(HeavyIterations, HeavyModulus)
    /\ renderedFrame' = animationFrameCounter
    /\ pendingTick' = TRUE
    /\ UNCHANGED <<insideZoneCounter, outsideZoneCounter,
                   animationFrameCounter, animationId, manualFields, manualView>>

\* The @Input bindings of OnpushCdComponent differ from the root's fields.
onpushInputChanged == onpushCounter # counter \/ onpushData # data

\* OnPush handled like Default: checked on every cycle.
onpushNeedsCheckAlways == TRUE

\* Whether a cycle checks the view of OnpushCdComponent: Default is always
\* checked, OnPush only if dirty (marked, or an input changed).
onpushNeedsCheck == onpushDirty \/ onpushInputChanged

\* Whether a cycle checks the view of ManualCdComponent (OnPush, no inputs).
manualNeedsCheck == manualDirty

\* A cycle that leaves the dirty flags as they were.
keepDirtyFlags == UNCHANGED <<manualDirty, onpushDirty>>

\* Last step of a cycle: "Clear dirty flags".
clearDirtyFlags ==
    /\ manualDirty' = FALSE
    /\ onpushDirty' = FALSE

\* One change-detection cycle over the component tree, root to leaves, with
\* outsideNow the value of outsideZoneCounter when the cycle runs. steps' is
\* set by the caller. Default views are always checked, OnPush views only if
\* dirty; dirty flags are cleared.
tickViews(outsideNow) ==
    /\ checkCDCount' = checkCDCount + 1
    /\ UNCHANGED <<counter, data>>
    /\ defaultCounter' = counter
    /\ defaultData' = data
    /\ defaultLastChecked' = Now'
    /\ UNCHANGED defaultInternalCounter
    /\ onpushCounter' = counter
    /\ onpushData' = data
    /\ IF onpushNeedsCheck
       THEN onpushLastChecked' = Now'
       ELSE UNCHANGED onpushLastChecked
    /\ UNCHANGED onpushInternalCounter
    /\ renderedSetTimeout' = setTimeoutCounter
    /\ renderedSetInterval' = setIntervalCounter
    /\ renderedPromise' = promiseCounter
    /\ renderedAsync' = asyncCounter
    /\ UNCHANGED <<asyncFields, queues>>
    /\ renderedInside' = insideZoneCounter
    /\ renderedOutside' = outsideNow
    /\ renderedWithManual' = outsideZoneWithManualCounter
    /\ renderedFrame' = animationFrameCounter
    /\ IF manualNeedsCheck
       THEN /\ rendered1' = counter1
            /\ rendered2' = counter2
            /\ rendered3' = counter3
       ELSE UNCHANGED <<rendered1, rendered2, rendered3>>
    /\ clearDirtyFlags

\* ApplicationRef.tick().
tick == tickViews(outsideZoneCounter)

\* outsideZoneCounter++ outside the zone, then appRef.tick().
triggerFullAppCD ==
    /\ CanStep
    /\ steps' = steps + 1
    /\ outsideZoneCounter' = outsideZoneCounter + 1
    /\ tickViews(outsideZoneCounter + 1)
    /\ UNCHANGED <<manualFields, insideZoneCounter, outsideZoneWithManualCounter,
                   animationFrameCounter, animationId, pendingTick>>

\* An emission that does not wait for the microtask queue to drain.
onMicrotaskEmptyEager ==
    /\ pendingTick
    /\ pendingTick' = FALSE
    /\ UNCHANGED steps
    /\ tick
    /\ UNCHANGED <<manualFields, outsideFields>>

\* NgZone.onMicrotaskEmpty fires once the microtask queue is empty and
\* ApplicationRef.tick() runs.
onMicrotaskEmpty ==
    /\ pendingTick
    /\ microtasks = <<>>
    /\ pendingTick' = FALSE
    /\ UNCHANGED steps
    /\ tick
    /\ UNCHANGED <<manualFields, outsideFields>>

----
\* AppComponent

\* counter++
increment ==
    /\ CanStep
    /\ steps' = steps + 1
    /\ counter' = counter + 1
    /\ UNCHANGED <<data, checkCDCount, defaultFields, onpushFields,
                   asyncFields, asyncView, queues,
                   manualFields, manualView, outsideFields, outsideView, pendingTick>>

\* data = `Updated at ${time of day}`
updateData ==
    /\ CanStep
    /\ steps' = steps + 1
    /\ \E t \in TimeStrings : data' = t
    /\ UNCHANGED <<counter, checkCDCount, defaultFields, onpushFields,
                   asyncFields, asyncView, queues,
                   manualFields, manualView, outsideFields, outsideView, pendingTick>>

----
\* DefaultCdComponent

\* internalCounter++, lastChecked stamped; "CD runs automatically".
defaultIncrementInternal ==
    /\ CanStep
    /\ steps' = steps + 1
    /\ UNCHANGED <<defaultCounter, defaultData, appFields, onpushFields,
                   asyncFields, asyncView, queues,
                   manualFields, manualView, outsideFields, outsideView>>
    /\ defaultInternalCounter' = defaultInternalCounter + 1
    /\ defaultLastChecked' = Now'
    /\ pendingTick' = TRUE

----
\* OnpushCdComponent

\* internalCounter++, lastChecked stamped, then cdr.markForCheck().
onpushIncrementInternal ==
    /\ CanStep
    /\ steps' = steps + 1
    /\ UNCHANGED <<onpushCounter, onpushData, appFields, defaultFields,
                   asyncFields, asyncView, queues,
                   manualFields, manualView, outsideFields, outsideView, pendingTick>>
    /\ onpushInternalCounter' = onpushInternalCounter + 1
    /\ onpushLastChecked' = Now'
    /\ onpushDirty' = TRUE

----
\* AsyncCdComponent

\* Everything outside AsyncCdComponent and the queues.
nonAsync == <<manualFields, manualView, outsideFields, outsideView, demoFields>>

\* The sequence s with e inserted so that it becomes element number p.
InsertAt(s, p, e) == SubSeq(s, 1, p - 1) \o <<e>> \o SubSeq(s, p, Len(s))

\* The sequence s without its elements equal to e.
Without(s, e) == SelectSeq(s, LAMBDA x : x # e)

\* Positions a 500 ms timer set now can take among the pending timers: after
\* every pending 500 ms timer, and before any suffix of the 1000 ms timers
\* (those set less than 500 ms ago).
HalfSecondPositions(s) ==
    { p \in 1..(Len(s) + 1) : \A i \in 1..Len(s) : s[i] = "timeout500" => i < p }

\* setTimeout(() => setTimeoutCounter++, 1000)
startSetTimeout ==
    /\ CanStep
    /\ steps' = steps + 1
    /\ timers' = Append(timers, "timeout1000")
    /\ UNCHANGED <<asyncFields, asyncView, microtasks, nonAsync, pendingTick>>

\* Toggle: clears a running interval, otherwise starts one.
startSetInterval ==
    /\ CanStep
    /\ steps' = steps + 1
    /\ IF intervalId # 0
       THEN /\ timers' = Without(timers, "interval")
            /\ intervalId' = 0
       ELSE /\ timers' = Append(timers, "interval")
            /\ intervalId' = 1
    /\ UNCHANGED <<setTimeoutCounter, setIntervalCounter, promiseCounter,
                   asyncCounter, asyncView, microtasks, nonAsync, pendingTick>>

\* Promise.resolve().then(() => promiseCounter++)
startPromise ==
    /\ CanStep
    /\ steps' = steps + 1
    /\ microtasks' = Append(microtasks, "promise")
    /\ UNCHANGED <<asyncFields, asyncView, timers, nonAsync, pendingTick>>

\* await new Promise(resolve => setTimeout(resolve, 1000)); the rest of the
\* method is the continuation of the await.
startAsync ==
    /\ CanStep
    /\ steps' = steps + 1
    /\ timers' = Append(timers, "resolve1000")
    /\ UNCHANGED <<asyncFields, asyncView, microtasks, nonAsync, pendingTick>>

\* A 500 ms timer, a promise callback and a 1000 ms timer.
startMultipleAsync ==
    /\ CanStep
    /\ steps' = steps + 1
    /\ \E p \in HalfSecondPositions(timers) :
           timers' = Append(InsertAt(timers, p, "timeout500"), "async1000")
    /\ microtasks' = Append(microtasks, "promise")
    /\ UNCHANGED <<asyncFields, asyncView, nonAsync, pendingTick>>

\* A timer callback that runs outside the zone: no emission follows it.
timerFiresOutsideZone ==
    /\ TaskMayRun
    /\ timers # <<>>
    /\ LET cb == Head(timers)
            rest == Tail(timers)
       IN  /\ cb = "interval" => setIntervalCounter < MaxIntervalFires
           /\ setTimeoutCounter' =
                 IF cb \in {"timeout1000", "timeout500"}
                 THEN setTimeoutCounter + 1 ELSE setTimeoutCounter
           /\ setIntervalCounter' =
                 IF cb = "interval" THEN setIntervalCounter + 1 ELSE setIntervalCounter
           /\ asyncCounter' =
                 IF cb = "async1000" THEN asyncCounter + 1 ELSE asyncCounter
           /\ microtasks' =
                 IF cb = "resolve1000" THEN Append(microtasks, "continuation")
                 ELSE microtasks
           /\ IF cb = "interval"
              THEN \E p \in 1..(Len(rest) + 1) : timers' = InsertAt(rest, p, "interval")
              ELSE timers' = rest
    /\ UNCHANGED <<promiseCounter, intervalId, asyncView, nonAsync, steps, pendingTick>>

\* The browser runs the earliest pending timer callback, inside the zone.
\* An interval is re-armed; its next run may come before timers that were
\* set while this run was overdue.
timerFires ==
    /\ TaskMayRun
    /\ timers # <<>>
    /\ LET cb == Head(timers)
            rest == Tail(timers)
       IN  /\ cb = "interval" => setIntervalCounter < MaxIntervalFires
           /\ setTimeoutCounter' =
                 IF cb \in {"timeout1000", "timeout500"}
                 THEN setTimeoutCounter + 1 ELSE setTimeoutCounter
           /\ setIntervalCounter' =
                 IF cb = "interval" THEN setIntervalCounter + 1 ELSE setIntervalCounter
           /\ asyncCounter' =
                 IF cb = "async1000" THEN asyncCounter + 1 ELSE asyncCounter
           /\ microtasks' =
                 IF cb = "resolve1000" THEN Append(microtasks, "continuation")
                 ELSE microtasks
           /\ IF cb = "interval"
              THEN \E p \in 1..(Len(rest) + 1) : timers' = InsertAt(rest, p, "interval")
              ELSE timers' = rest
    /\ pendingTick' = TRUE
    /\ UNCHANGED <<promiseCounter, intervalId, asyncView, nonAsync, steps>>

\* The oldest microtask runs, inside the zone: a promise callback or the
\* continuation of startAsync.
microtaskRuns ==
    /\ microtasks # <<>>
    /\ LET cb == Head(microtasks)
       IN  /\ promiseCounter' =
                 IF cb = "promise" THEN promiseCounter + 1 ELSE promiseCounter
           /\ asyncCounter' =
                 IF cb = "continuation" THEN asyncCounter + 1 ELSE asyncCounter
    /\ microtasks' = Tail(microtasks)
    /\ pendingTick' = TRUE
    /\ UNCHANGED <<setTimeoutCounter, setIntervalCounter, intervalId, timers,
                   asyncView, nonAsync, steps>>

----
Next ==
    \/ incrementWithDetectChanges
    \/ incrementWithMarkForCheck
    \/ incrementWithoutTrigger
    \/ incrementMultiple
    \/ incrementInsideZone
    \/ incrementOutsideZone
    \/ incrementOutsideZoneWithManual
    \/ startAnimation
    \/ animationFrame
    \/ heavyComputation
    \/ triggerFullAppCD
    \/ onMicrotaskEmpty
    \/ increment
    \/ updateData
    \/ defaultIncrementInternal
    \/ onpushIncrementInternal
    \/ startSetTimeout
    \/ startSetInterval
    \/ startPromise
    \/ startAsync
    \/ startMultipleAsync
    \/ timerFires
    \/ microtaskRuns

Spec == Init /\ [][Next]_vars

\* The operations of AsyncCdComponent with the browser and zone callbacks,
\* and the two operations of other components that schedule or run a cycle.
AsyncNext ==
    \/ startSetTimeout
    \/ startSetInterval
    \/ startPromise
    \/ startAsync
    \/ startMultipleAsync
    \/ timerFires
    \/ microtaskRuns
    \/ onMicrotaskEmpty
    \/ incrementInsideZone
    \/ triggerFullAppCD

\* The event loop always runs a queued microtask, and the zone emits
\* onMicrotaskEmpty once a task and its microtasks are done.
AsyncSpec ==
    /\ Init
    /\ [][AsyncNext]_vars
    /\ WF_vars(microtaskRuns)
    /\ WF_vars(onMicrotaskEmpty)

----
\* A step in which a change-detection cycle (ApplicationRef.tick()) ran.
CycleRan == checkCDCount' = checkCDCount + 1

DetectChangesVersusMarkForCheck ==
    [][/\ counter1' = counter1 + 1 => rendered1' = counter1'
       /\ counter2' = counter2 + 1 => (rendered2' = rendered2 /\ manualDirty')
       /\ (CycleRan /\ manualDirty) => (rendered2' = counter2' /\ ~manualDirty')
       /\ rendered2' # rendered2 => (CycleRan \/ counter1' # counter1)
    ]_vars

\* C18 witness: detectChanges has rendered counter1, markForCheck has left
\* counter2 stale and the view dirty.
DetectChangesVersusMarkForCheckWitness ==
    /\ counter1 = 1 /\ rendered1 = 1
    /\ counter2 = 1 /\ rendered2 = 0
    /\ manualDirty

\* C19: ApplicationRef.tick() runs only when the microtask queue is empty, so
\* no cycle runs between a task and the microtasks it queued, and every
\* onMicrotaskEmpty emission (the outstanding emission is consumed) runs
\* exactly one cycle.
TickOnMicrotaskEmpty ==
    [][/\ CycleRan => (microtasks = <<>> /\ microtasks' = <<>>)
       /\ (pendingTick /\ ~pendingTick') => CycleRan
       /\ checkCDCount' \in {checkCDCount, checkCDCount + 1}
    ]_vars

\* C19 witness: a promise callback queued by a handler has run and the one
\* cycle that followed it has rendered its update.
TickOnMicrotaskEmptyWitness ==
    /\ promiseCounter = 1 /\ renderedPromise = 1
    /\ checkCDCount = 1
    /\ microtasks = <<>> /\ ~pendingTick

WithManualRendered == renderedWithManual = outsideZoneWithManualCounter

\* C23 witness: the counter was incremented, reset by heavyComputation or
\* incremented further, and is rendered.
WithManualRenderedWitness ==
    /\ steps = 3
    /\ outsideZoneWithManualCounter = 1 /\ renderedWithManual = 1
    /\ pendingTick /\ checkCDCount = 0
    /\ intervalId = 0 /\ animationId = 0 /\ animationFrameCounter = 0

\* C24: a frame calls detectChanges() if and only if animationFrameCounter,
\* after its increment, is a multiple of 10: then the view shows the new
\* value, otherwise the view is left as it was; the rendered value never lags
\* the model by more than 9.
AnimationEveryTenFrames ==
    [][/\ animationFrameCounter' # animationFrameCounter =>
            IF animationFrameCounter' % 10 = 0
            THEN renderedFrame' = animationFrameCounter'
            ELSE outsideView' = outsideView
       /\ animationFrameCounter' - renderedFrame' \in 0..9
    ]_vars

\* C24 witness: the loop alone has run eleven frames and the view shows 10.
AnimationEveryTenFramesWitness ==
    /\ steps = 1
    /\ animationFrameCounter = 11 /\ renderedFrame = 10

\* Some counter of AsyncCdComponent differs from its rendered value.
AsyncStale ==
    <<setTimeoutCounter, setIntervalCounter, promiseCounter, asyncCounter>> # asyncView

\* C25: every increment made by a timer callback, a promise callback or the
\* await continuation leaves an onMicrotaskEmpty emission outstanding, and the
\* rendered counters of AsyncCdComponent eventually equal the model counters.
AsyncAutoDetected ==
    /\ [](AsyncStale => pendingTick)
    /\ (AsyncStale ~> ~AsyncStale)

\* C25 witness: startMultipleAsync's two timers and its promise callback have
\* run and a cycle triggered by the zone has rendered the three increments.
AsyncAutoDetectedWitness ==
    /\ setTimeoutCounter = 1 /\ promiseCounter = 1 /\ asyncCounter = 1
    /\ ~AsyncStale
    /\ checkCDCount >= 1 /\ outsideZoneCounter = 0

====
